---- MODULE Spec2Model ----
(***************************************************************************)
(* Junghwan-bot: the inference client (bot/gemini_client.py, GeminiClient), *)
(* the conversation manager (bot/conversation_manager.py) and the          *)
(* broadcast delivery loop (bot/broadcast_manager.py).                     *)
(*                                                                         *)
(* One GeminiClient object is shared by every message handler.  Handlers   *)
(* are asyncio coroutines on one event loop: a coroutine runs without      *)
(* interruption until it awaits, and the only await of generate_response   *)
(* is the backend call (asyncio.to_thread).  An action of this model is    *)
(* therefore the code that runs between two awaits of one coroutine.       *)
(* A call of generate_response that is suspended at the await is an        *)
(* element of the bag inflight; a call has no state of its own besides    *)
(* the loop iterations it has made.                                        *)
(*                                                                         *)
(* The components are explored one at a time: Spec moves the inference    *)
(* client, CtxSpec the conversation manager (with the outcome of          *)
(* generate_response left open), BroadcastSpec the delivery tasks of one  *)
(* broadcast counted by the await they are at, RegistrySpec the chat      *)
(* registry (bot/user_manager.py) together with one send_broadcast call   *)
(* whose tasks are told apart by their target; each leaves the variables  *)
(* of the others at rest.  SweepSpec is the conversation manager with a   *)
(* cleanup task that is scheduled fairly, CommandSpec is RegistrySpec     *)
(* with send_broadcast called by the broadcast commands of handlers.py,   *)
(* and PostSpec applies _post_process_response to one text.  StartupSpec  *)
(* is main() of main.py, from the start of the process to its exit; the   *)
(* other specifications run in a process that main() has brought to its   *)
(* polling loop.                                                           *)
(***************************************************************************)
EXTENDS Integers, Sequences, FiniteSets, Bags, TLC

\* ---------------------------------------------------------------- bounds
NumKeys    == 2      \* len(self.api_keys)
NumCallers == 2      \* calls of generate_response that may be in flight at once
TickStep   == 300    \* seconds the clock advances in one Tick
MaxTicks   == 2      \* the clock stops after this many Ticks
NumUsers   == 2      \* user ids that send messages
MaxCalls   == 2      \* calls of get_response that are started in one behaviour
NumTargets == 21     \* len(targets) of the broadcast
NumChats   == 3      \* chat ids that can be registered
MaxSentences == 130  \* sentences of a text given to _post_process_response

\* ------------------------------------------------------ program constants
max_failures == 5    \* self.max_failures
ResetWindow  == 300  \* time.time() + 300
MaxMessages  == 20   \* `if len(self.messages) > 20`
RecentLimit  == 8    \* context.get_recent_context(8)
CONTEXT_TIMEOUT_HOURS == 2   \* settings.CONTEXT_TIMEOUT_HOURS
\* the hour clock of the conversation manager stops at the first hour at which
\* a context last written at hour 0 is expired
MaxHours == CONTEXT_TIMEOUT_HOURS + 1
SemaphoreLimit == 20 \* asyncio.Semaphore(20)
BOT_OWNER_ID == 42   \* int(os.getenv("BOT_OWNER_ID", ...)) of the serving process
MaxReplyLength == 1000   \* `if len(text) > 1000`
SentenceBudget == 800    \* `if char_count + len(sentence) > 800`, text[:800]
CasualMinLength == 50    \* `tone == "casual" and len(text) > 50`

Keys == 0..(NumKeys - 1)
None == << >>        \* Python None for circuit_reset_time; a set time t is <<t>>

VARIABLES
    current_index,        \* self.current_index
    client,               \* index of the key self.client was created with
    failure_count,        \* self.failure_count
    circuit_open,         \* self.circuit_open
    circuit_reset_time,   \* self.circuit_reset_time: None or <<t>>
    now,                  \* time.time()
    inflight,             \* bag of the calls suspended at `await asyncio.to_thread`; a call is the
                          \* sequence of the key indexes its loop iterations have used so far
    last,                 \* history: the branch of the code taken by the latest step
    consecutive           \* history: terminal failures since the last success or circuit reset
                          \* (saturates at max_failures)

\* ConversationManager
VARIABLES
    contexts,             \* self.contexts in dict order: a sequence of <<user_id, object>>
    heap,                 \* the ConversationContext objects that the dict or a suspended call refers to
    hour,                 \* datetime.now(), in hours
    started,              \* number of get_response calls started so far
    responding,           \* the get_response calls suspended at `await generate_response`
    slept,                \* the sleep(3600) of the cleanup task has elapsed: an iteration is due
    cm_last               \* history: what the latest step of the conversation manager did

\* BroadcastManager._send_to_targets
VARIABLES
    bm_waiting,           \* send_to_chat tasks that have not entered `async with semaphore`
    semaphore,            \* value of the asyncio.Semaphore
    bm_sending,           \* tasks suspended at `await self.bot.send_message`
    bm_sleeping,          \* tasks suspended at `await asyncio.sleep(0.05)`
    success_count,
    failed_count,
    user_count,
    group_count,
    bm_removed,           \* calls of user_manager.remove_chat made by the tasks
    bm_result             \* None, or <<the dict returned by _send_to_targets>>

\* UserManager.chats and one call of BroadcastManager.send_broadcast
VARIABLES
    chats,                \* self.chats: chat id -> [chat_type, is_active]
    broadcast,            \* the send_broadcast call: where it is, and its target_type
    task                  \* the send_to_chat task of every target: the await it is at (or how it
                          \* ended) and the number of send_message calls it has made

\* main() of main.py
VARIABLES
    proc                  \* the process: its environment, where main() is, what it has started
                          \* and the exit status

\* GeminiClient._post_process_response
VARIABLES
    post                  \* one call: the text it is given, the draws of `random`, the result

\* the broadcast commands of handlers.py
VARIABLES
    update                \* the latest /broadcast... message handled and the answer it got

gemini_vars == <<current_index, client, failure_count, circuit_open, circuit_reset_time,
                 now, inflight, last, consecutive>>
cm_vars == <<contexts, heap, hour, started, responding, slept, cm_last>>
bm_vars == <<bm_waiting, semaphore, bm_sending, bm_sleeping, success_count, failed_count,
             user_count, group_count, bm_removed, bm_result>>
rg_vars == <<chats, broadcast, task>>
vars == <<gemini_vars, cm_vars, bm_vars, rg_vars, proc, post, update>>

circuit == <<failure_count, circuit_open, circuit_reset_time>>
cursor  == <<current_index, client>>

Ops == {"init", "attempt", "reset_attempt", "circuit_open", "text", "empty", "error",
        "retry", "exhausted", "tick"}

\* bag operations on the calls in flight
One(u)           == SetToBag({u})
Calls            == BagToSet(inflight)
Replace(u, v)    == (inflight (-) One(u)) (+) One(v)

\* what the latest step of the conversation manager did: the operation, the
\* user and call it belongs to, the context object the call holds, whether
\* _get_context took its reset branch, and what the operation returned
Note(op, user, id, obj, reset, ret) ==
    [op |-> op, user |-> user, id |-> id, obj |-> obj, reset |-> reset, ret |-> ret]

\* ------------------------------------------------------------------ Init
\* GeminiClient.__init__
GeminiInit ==
    /\ current_index = 0
    /\ client = 0
    /\ failure_count = 0
    /\ circuit_open = FALSE
    /\ circuit_reset_time = None
    /\ now = 0
    /\ inflight = EmptyBag
    /\ last = "init"
    /\ consecutive = 0

\* ConversationManager.__init__: no context, the cleanup task asleep
CmInit ==
    /\ contexts = << >>
    /\ heap = << >>
    /\ hour = 0
    /\ started = 0
    /\ responding = {}
    /\ slept = FALSE
    /\ cm_last = Note("init", 0, 0, 0, FALSE, None)

\* no broadcast is running
BmIdle ==
    /\ bm_waiting = 0
    /\ semaphore = 0
    /\ bm_sending = 0
    /\ bm_sleeping = 0
    /\ success_count = 0
    /\ failed_count = 0
    /\ user_count = 0
    /\ group_count = 0
    /\ bm_removed = 0
    /\ bm_result = None

\* UserManager.__init__ without a data file; send_broadcast has not been called
RgIdle ==
    /\ chats = << >>
    /\ broadcast = [pc |-> "idle", target_type |-> "all"]
    /\ task = << >>

\* the process at a point of main(): health is "never", "running" or
\* "stopped"; polling tells whether start_polling was ever called; status is
\* None while the process runs
Process(env, pc, health, polling, status) ==
    [env |-> env, pc |-> pc, health |-> health, polling |-> polling, status |-> status]

\* a process that main() has brought to its polling loop; the other
\* specifications look at nothing else of it
Serving == proc = "polling"

\* no call of _post_process_response is looked at
NoPost == post = "none"

\* no broadcast command has been received
NoUpdate == update = None

Init == GeminiInit /\ CmInit /\ BmIdle /\ RgIdle /\ Serving /\ NoPost /\ NoUpdate

\* --------------------------------------------------------------- helpers
\* `self.circuit_reset_time and time.time() > self.circuit_reset_time`
WindowExpiredInclusive(reset, t) == reset # None /\ reset[1] # 0 /\ t >= reset[1]
WindowExpired(reset, t) == reset # None /\ reset[1] # 0 /\ t > reset[1]

\* value returned by _is_circuit_open()
_is_circuit_open == circuit_open /\ ~WindowExpired(circuit_reset_time, now)

\* the reset branch of _is_circuit_open()
CircuitResetKeepsCount ==
    /\ circuit_open' = FALSE
    /\ failure_count' = failure_count
    /\ circuit_reset_time' = None
CircuitReset ==
    /\ circuit_open' = FALSE
    /\ failure_count' = 0
    /\ circuit_reset_time' = None

\* _handle_failure()
HandleFailureNoResetTime ==
    /\ failure_count' = failure_count + 1
    /\ IF failure_count + 1 >= max_failures
         THEN circuit_open' = TRUE /\ UNCHANGED circuit_reset_time
         ELSE UNCHANGED <<circuit_open, circuit_reset_time>>
HandleFailureLostUpdate ==
    /\ failure_count' = IF BagCardinality(inflight) > 1 THEN failure_count ELSE failure_count + 1
    /\ IF failure_count' >= max_failures
         THEN circuit_open' = TRUE /\ circuit_reset_time' = <<now + ResetWindow>>
         ELSE UNCHANGED <<circuit_open, circuit_reset_time>>
HandleFailureTwice ==
    /\ failure_count' = failure_count + 2
    /\ IF failure_count + 2 >= max_failures
         THEN circuit_open' = TRUE /\ circuit_reset_time' = <<now + ResetWindow>>
         ELSE UNCHANGED <<circuit_open, circuit_reset_time>>
_handle_failure ==
    /\ failure_count' = failure_count + 1
    /\ IF failure_count + 1 >= max_failures
         THEN circuit_open' = TRUE /\ circuit_reset_time' = <<now + ResetWindow>>
         ELSE UNCHANGED <<circuit_open, circuit_reset_time>>

\* _rotate_key()
RotateKeyNoWrap ==
    /\ current_index' = current_index + 1
    /\ client' = current_index'
_rotate_key ==
    /\ current_index' = (current_index + 1) % NumKeys
    /\ client' = current_index'

\* history bookkeeping on a terminal failure
NoteTerminalFailure ==
    consecutive' = IF consecutive < max_failures THEN consecutive + 1 ELSE consecutive

\* --------------------------------------------------------------- actions
\* generate_response, from entry to its first await or to `return None` on
\* the open circuit
generate_response ==
    /\ BagCardinality(inflight) < NumCallers
    /\ IF _is_circuit_open
         THEN /\ last' = "circuit_open"
              /\ UNCHANGED <<inflight, circuit, consecutive>>
         ELSE /\ IF circuit_open
                   THEN CircuitReset /\ consecutive' = 0 /\ last' = "reset_attempt"
                   ELSE UNCHANGED <<circuit, consecutive>> /\ last' = "attempt"
              /\ inflight' = inflight (+) One(<<client>>)
    /\ UNCHANGED <<cursor, now>>

\* the backend returned a non-empty text to the call u
SuccessKeepsCount(u) ==
    /\ u \in Calls
    /\ failure_count' = failure_count
    /\ circuit_open' = FALSE
    /\ inflight' = inflight (-) One(u)
    /\ last' = "text"
    /\ consecutive' = 0
    /\ UNCHANGED <<cursor, circuit_reset_time, now>>
Success(u) ==
    /\ u \in Calls
    /\ failure_count' = 0
    /\ circuit_open' = FALSE
    /\ inflight' = inflight (-) One(u)
    /\ last' = "text"
    /\ consecutive' = 0
    /\ UNCHANGED <<cursor, circuit_reset_time, now>>

\* the backend returned nothing or an empty text to the call u
EmptyResponse(u) ==
    /\ u \in Calls
    /\ _handle_failure
    /\ inflight' = inflight (-) One(u)
    /\ last' = "empty"
    /\ NoteTerminalFailure
    /\ UNCHANGED <<cursor, now>>

\* the backend call of u raised an exception that is not a quota/rate-limit error
OtherError(u) ==
    /\ u \in Calls
    /\ _handle_failure
    /\ inflight' = inflight (-) One(u)
    /\ last' = "error"
    /\ NoteTerminalFailure
    /\ UNCHANGED <<cursor, now>>

\* the backend call of u raised a quota/rate-limit error: rotate, then the next
\* iteration of `for _ in range(len(self.api_keys))` or the end of the loop
QuotaErrorRetriesForever(u) ==
    /\ u \in Calls
    /\ _rotate_key
    /\ inflight' = Replace(u, Append(u, client'))
    /\ last' = "retry"
    /\ UNCHANGED <<circuit, now, consecutive>>
QuotaError(u) ==
    /\ u \in Calls
    /\ _rotate_key
    /\ IF Len(u) < NumKeys
         THEN /\ inflight' = Replace(u, Append(u, client'))
              /\ last' = "retry"
              /\ UNCHANGED consecutive
         ELSE /\ inflight' = inflight (-) One(u)
              /\ last' = "exhausted"
              /\ NoteTerminalFailure
    /\ UNCHANGED <<circuit, now>>

\* Time passes.  The code reads the clock only to compare it with the reset
\* time of an open circuit and to set that reset time to now + 300, so only
\* the time that passes while an open circuit waits for its reset time makes
\* a difference; the clock is moved only then.
Tick ==
    /\ circuit_open /\ circuit_reset_time # None /\ now <= circuit_reset_time[1]
    /\ now + TickStep <= MaxTicks * TickStep
    /\ now' = now + TickStep
    /\ last' = "tick"
    /\ UNCHANGED <<cursor, circuit, inflight, consecutive>>

Next ==
    \/ generate_response /\ UNCHANGED <<cm_vars, bm_vars, rg_vars, proc, post, update>>
    \/ \E u \in Calls : Success(u) /\ UNCHANGED <<cm_vars, bm_vars, rg_vars, proc, post, update>>
    \/ \E u \in Calls : EmptyResponse(u) /\ UNCHANGED <<cm_vars, bm_vars, rg_vars, proc, post, update>>
    \/ \E u \in Calls : OtherError(u) /\ UNCHANGED <<cm_vars, bm_vars, rg_vars, proc, post, update>>
    \/ \E u \in Calls : QuotaError(u) /\ UNCHANGED <<cm_vars, bm_vars, rg_vars, proc, post, update>>
    \/ Tick /\ UNCHANGED <<cm_vars, bm_vars, rg_vars, proc, post, update>>

Spec == Init /\ [][Next]_vars

TypeOK ==
    /\ current_index \in Keys
    /\ client \in Keys
    /\ failure_count \in Nat
    /\ circuit_open \in BOOLEAN
    /\ circuit_reset_time = None \/ (Len(circuit_reset_time) = 1 /\ circuit_reset_time[1] \in Nat)
    /\ now \in Nat
    /\ IsABag(inflight) /\ BagCardinality(inflight) <= NumCallers
    /\ \A u \in Calls : Len(u) \in 1..NumKeys
    /\ last \in Ops
    /\ consecutive \in 0..max_failures

\* =================================================== ConversationManager
\* A ConversationContext is a record; the dict self.contexts refers to
\* objects of the heap, and so does a get_response call suspended at its
\* await (the local variable `context`).  A message is [role, content]; the
\* content of the user message of call n is <<"msg", n>>.  Message
\* timestamps are left out: nothing reads them but the history report.
Users    == 1..NumUsers
InitLen(u) == MaxMessages - u          \* history length of the context of user u at the start
Limits   == {0, 2, 20}                 \* `limit` arguments of get_user_chat_history
\* detect_language_and_tone(message): the messages received alternate between
\* casual English and formal Hindi
Detected(n) == IF n % 2 = 1 THEN <<"en", "casual">> ELSE <<"hi", "formal">>
\* user_name of get_response: message.from_user.first_name, here given for
\* the users with an odd id and None for the others
Named(u) == u % 2 = 1

\* s[-n:] for n >= 1
Last(s, n) == IF Len(s) <= n THEN s ELSE SubSeq(s, Len(s) - n + 1, Len(s))
\* s[:n]
First(s, n) == IF Len(s) <= n THEN s ELSE SubSeq(s, 1, n)

\* ConversationContext.__init__ at time t
ConversationContext(u, t) ==
    [user_id |-> u, messages |-> << >>, last_activity |-> t,
     language |-> "en", tone |-> "casual"]

\* ConversationContext.add_message at time t
AddMessageKeepsOldest(c, role, content, t) ==
    [c EXCEPT !.messages =
                 LET a == Append(@, [role |-> role, content |-> content])
                 IN  IF Len(a) > MaxMessages THEN First(a, MaxMessages) ELSE a,
              !.last_activity = t]
add_message(c, role, content, t) ==
    [c EXCEPT !.messages =
                 LET a == Append(@, [role |-> role, content |-> content])
                 IN  IF Len(a) > MaxMessages THEN Last(a, MaxMessages) ELSE a,
              !.last_activity = t]

\* ConversationContext.get_recent_context
get_recent_context(c, limit) ==
    IF c.messages # << >> THEN Last(c.messages, limit) ELSE << >>

\* ConversationContext.is_expired at time t
IsExpiredInclusive(c, t) == t - c.last_activity >= CONTEXT_TIMEOUT_HOURS
is_expired(c, t) == t - c.last_activity > CONTEXT_TIMEOUT_HOURS

\* `user_id in self.contexts`, self.contexts[user_id]
Stored   == {contexts[i][1] : i \in DOMAIN contexts}
IndexOf(u) == CHOOSE i \in DOMAIN contexts : contexts[i][1] = u
ObjOf(u) == contexts[IndexOf(u)][2]

\* the objects still referred to by the dict cs or by a call of rs
Collect(h, cs, rs) ==
    [o \in {cs[i][2] : i \in DOMAIN cs} \cup {c.obj : c \in rs} |-> h[o]]

\* _get_context creates an object: the user has no entry, or the entry is expired
NeedsFreshOnlyIfAbsent(u) == u \notin Stored
NeedsFresh(u) == u \notin Stored \/ is_expired(heap[ObjOf(u)], hour)

\* _get_context(u); o is the identity of the object it creates, if it creates one
_get_context(u, o) ==
    LET fresh == NeedsFresh(u)
    IN  [contexts |-> IF u \notin Stored THEN Append(contexts, <<u, o>>)
                      ELSE IF fresh THEN [contexts EXCEPT ![IndexOf(u)] = <<u, o>>]
                      ELSE contexts,
         heap     |-> IF fresh THEN (o :> ConversationContext(u, hour)) @@ heap ELSE heap,
         obj      |-> IF fresh THEN o ELSE ObjOf(u),
         reset    |-> u \in Stored /\ fresh]

\* _prepare_conversation_history
_prepare_conversation_history(c) ==
    LET r == get_recent_context(c, RecentLimit)
    IN  [i \in DOMAIN r |->
            [role |-> IF r[i].role = "user" THEN "user" ELSE "model",
             text |-> r[i].content]]

\* `contents` of generate_response: the history, then the current message
Contents(history, message) == Append(history, [role |-> "user", text |-> message])

\* personality.enhance_response: the text it makes of the text raw
enhance_response(raw) == <<"enh", raw[2]>>

\* The replies.  A fallback or error reply is an element of one of the three
\* fixed lists (`from`); `personal` says that it was lower-cased and prefixed
\* with the user's name.
GeneratedReply(text) == [from |-> "generated", personal |-> FALSE, text |-> text]
FallbackIgnoresTone(tone, named) ==
    [from |-> "casual", personal |-> named, text |-> << >>]
_get_fallback_response(tone, named) ==
    [from     |-> IF tone = "formal" THEN "formal" ELSE "casual",
     personal |-> named /\ tone # "formal",
     text     |-> << >>]
_get_error_response(named) ==
    [from |-> "error", personal |-> named, text |-> << >>]

\* get_response from its entry to the call of generate_response (lines
\* 99-113) as call number n: the store, the object and history it ends with
Enter(u, n) ==
    LET g  == _get_context(u, NumUsers + n)
        d  == Detected(n)
        c1 == [g.heap[g.obj] EXCEPT !.language = d[1], !.tone = d[2]]
        c2 == add_message(c1, "user", <<"msg", n>>, hour)
    IN  [contexts |-> g.contexts,
         heap     |-> [g.heap EXCEPT ![g.obj] = c2],
         obj      |-> g.obj,
         reset    |-> g.reset,
         tone     |-> d[2],
         history  |-> _prepare_conversation_history(c2)]

\* get_response is called and suspends at the backend call of generate_response
RespondStart(u) ==
    /\ started < MaxCalls
    /\ Cardinality(responding) < NumCallers
    /\ LET n == started + 1
           e == Enter(u, n)
           call == [id |-> n, user |-> u, obj |-> e.obj, tone |-> e.tone, named |-> Named(u),
                    history |-> e.history]
       IN  /\ contexts' = e.contexts
           /\ responding' = responding \cup {call}
           /\ heap' = Collect(e.heap, contexts', responding')
           /\ cm_last' = Note("start", u, n, e.obj, e.reset, None)
    /\ started' = started + 1
    /\ UNCHANGED <<hour, slept>>

\* get_response is called while the circuit is open: generate_response
\* returns None without an await and the fallback reply is returned
RespondCircuitOpen(u) ==
    /\ started < MaxCalls
    /\ LET n == started + 1
           e == Enter(u, n)
       IN  /\ contexts' = e.contexts
           /\ heap' = Collect(e.heap, contexts', responding)
           /\ cm_last' = Note("rejected", u, n, e.obj, e.reset,
                              <<_get_fallback_response(e.tone, Named(u))>>)
    /\ started' = started + 1
    /\ UNCHANGED <<hour, slept, responding>>

\* generate_response returned a text to the call c (lines 124-132)
RespondSuccessRaw(c) ==
    /\ c \in responding
    /\ LET raw      == <<"txt", c.id>>
           enhanced == enhance_response(raw)
           h        == [heap EXCEPT ![c.obj] = add_message(@, "assistant", raw, hour)]
       IN  /\ responding' = responding \ {c}
           /\ heap' = Collect(h, contexts, responding')
           /\ cm_last' = Note("success", c.user, c.id, c.obj, FALSE, <<GeneratedReply(enhanced)>>)
    /\ UNCHANGED <<contexts, hour, started, slept>>
RespondSuccess(c) ==
    /\ c \in responding
    /\ LET raw      == <<"txt", c.id>>
           enhanced == enhance_response(raw)
           h        == [heap EXCEPT ![c.obj] = add_message(@, "assistant", enhanced, hour)]
       IN  /\ responding' = responding \ {c}
           /\ heap' = Collect(h, contexts, responding')
           /\ cm_last' = Note("success", c.user, c.id, c.obj, FALSE, <<GeneratedReply(enhanced)>>)
    /\ UNCHANGED <<contexts, hour, started, slept>>

\* generate_response returned None (or an empty text) to the call c (lines 133-135)
RespondFallbackStoresReply(c) ==
    /\ c \in responding
    /\ responding' = responding \ {c}
    /\ heap' = Collect([heap EXCEPT ![c.obj] = add_message(@, "assistant", <<"fallback", c.id>>, hour)],
                       contexts, responding')
    /\ cm_last' = Note("fallback", c.user, c.id, c.obj, FALSE,
                       <<_get_fallback_response(c.tone, c.named)>>)
    /\ UNCHANGED <<contexts, hour, started, slept>>
RespondFallback(c) ==
    /\ c \in responding
    /\ responding' = responding \ {c}
    /\ heap' = Collect(heap, contexts, responding')
    /\ cm_last' = Note("fallback", c.user, c.id, c.obj, FALSE,
                       <<_get_fallback_response(c.tone, c.named)>>)
    /\ UNCHANGED <<contexts, hour, started, slept>>

\* an exception reached the `except Exception` of get_response (lines 137-139)
RespondError(c) ==
    /\ c \in responding
    /\ responding' = responding \ {c}
    /\ heap' = Collect(heap, contexts, responding')
    /\ cm_last' = Note("error", c.user, c.id, c.obj, FALSE, <<_get_error_response(c.named)>>)
    /\ UNCHANGED <<contexts, hour, started, slept>>

\* value of get_user_chat_history(u, limit)
ChatHistory(u, limit) ==
    IF u \in Stored
      THEN LET c == heap[ObjOf(u)]
               m == IF limit # 0 THEN Last(c.messages, limit) ELSE c.messages
           IN  [i \in DOMAIN m |-> [role |-> m[i].role, content |-> m[i].content,
                                    language |-> c.language, tone |-> c.tone]]
      ELSE << >>

\* get_user_chat_history(u, limit): what the call does to the state (its
\* value is ChatHistory(u, limit))
SnapshotCreates(u, limit) ==
    /\ LET g == _get_context(u, NumUsers + MaxCalls + 1)
       IN  /\ contexts' = g.contexts
           /\ heap' = Collect(g.heap, contexts', responding)
    /\ cm_last' = Note("snapshot", u, 0, 0, FALSE, None)
    /\ UNCHANGED <<hour, started, responding, slept>>
get_user_chat_history(u, limit) ==
    /\ cm_last' = Note("snapshot", u, 0, 0, FALSE, None)
    /\ UNCHANGED <<contexts, heap, hour, started, responding, slept>>

\* an hour passes; the sleep(3600) of the cleanup task ends with it
CtxTick ==
    /\ ~slept
    /\ hour < MaxHours
    /\ hour' = hour + 1
    /\ slept' = TRUE
    /\ cm_last' = Note("tick", 0, 0, 0, FALSE, None)
    /\ UNCHANGED <<contexts, heap, started, responding>>

\* the users of the expired entries, in dict order (lines 237-240)
ExpiredUsers ==
    LET e == SelectSeq(contexts, LAMBDA p : is_expired(heap[p[2]], hour))
    IN  [i \in DOMAIN e |-> e[i][1]]

\* cs without the entry of the user u
Del(cs, u) == SelectSeq(cs, LAMBDA p : p[1] # u)

\* One iteration of _cleanup_expired_contexts after its sleep (lines
\* 237-251).  self.rate_limits is never assigned (line 58 is a comment), so
\* `if user_id in self.rate_limits` raises AttributeError right after the
\* first `del self.contexts[user_id]`; the `except Exception` of the loop
\* body catches it and the task goes back to sleep.
CleanupFailsBeforeDelete ==
    /\ slept
    /\ slept' = FALSE
    /\ contexts' = IF Len(ExpiredUsers) > 1 THEN contexts
                   ELSE IF ExpiredUsers = << >> THEN contexts ELSE Del(contexts, ExpiredUsers[1])
    /\ heap' = Collect(heap, contexts', responding)
    /\ cm_last' = Note("sweep", 0, 0, 0, FALSE, None)
    /\ UNCHANGED <<hour, started, responding>>
_cleanup_expired_contexts ==
    /\ slept
    /\ slept' = FALSE
    /\ contexts' = IF ExpiredUsers = << >> THEN contexts ELSE Del(contexts, ExpiredUsers[1])
    /\ heap' = Collect(heap, contexts', responding)
    /\ cm_last' = Note("sweep", 0, 0, 0, FALSE, None)
    /\ UNCHANGED <<hour, started, responding>>

\* the context stored for user u at the start: k messages, user and
\* assistant turns alternating, written at hour 0
InitMessages(k) ==
    [i \in 1..k |-> [role |-> IF i % 2 = 1 THEN "user" ELSE "assistant", content |-> <<"old", i>>]]
InitContext(u, k) == [ConversationContext(u, 0) EXCEPT !.messages = InitMessages(k)]

\* the conversation manager after some traffic: every user u has a context
\* of InitLen(u) messages, the object u
CtxInit ==
    /\ GeminiInit
    /\ BmIdle
    /\ RgIdle
    /\ Serving
    /\ NoPost
    /\ NoUpdate
    /\ contexts = [u \in Users |-> <<u, u>>]
    /\ heap = [u \in Users |-> InitContext(u, InitLen(u))]
    /\ hour = 0
    /\ started = 0
    /\ responding = {}
    /\ slept = FALSE
    /\ cm_last = Note("init", 0, 0, 0, FALSE, None)

CtxNext ==
    \/ \E u \in Users : RespondStart(u) /\ UNCHANGED <<gemini_vars, bm_vars, rg_vars, proc, post, update>>
    \/ \E u \in Users : RespondCircuitOpen(u) /\ UNCHANGED <<gemini_vars, bm_vars, rg_vars, proc, post, update>>
    \/ \E c \in responding : RespondSuccess(c) /\ UNCHANGED <<gemini_vars, bm_vars, rg_vars, proc, post, update>>
    \/ \E c \in responding : RespondFallback(c) /\ UNCHANGED <<gemini_vars, bm_vars, rg_vars, proc, post, update>>
    \/ \E c \in responding : RespondError(c) /\ UNCHANGED <<gemini_vars, bm_vars, rg_vars, proc, post, update>>
    \/ \E u \in Users, limit \in Limits :
          get_user_chat_history(u, limit) /\ UNCHANGED <<gemini_vars, bm_vars, rg_vars, proc, post, update>>
    \/ CtxTick /\ UNCHANGED <<gemini_vars, bm_vars, rg_vars, proc, post, update>>
    \/ _cleanup_expired_contexts /\ UNCHANGED <<gemini_vars, bm_vars, rg_vars, proc, post, update>>

CtxSpec == CtxInit /\ [][CtxNext]_vars

\* ------------------------------------------------ the cleanup task, for ever
\* The hour clock stops at MaxHours, the cleanup task does not: its
\* sleep(3600) keeps elapsing.  (An entry that is expired at MaxHours stays
\* expired at every later hour.)
LateSleep ==
    /\ ~slept
    /\ hour = MaxHours
    /\ slept' = TRUE
    /\ cm_last' = Note("tick", 0, 0, 0, FALSE, None)
    /\ UNCHANGED <<contexts, heap, hour, started, responding>>

\* the two steps of the loop body of the cleanup task
SleepOver == (CtxTick \/ LateSleep) /\ UNCHANGED <<gemini_vars, bm_vars, rg_vars, proc, post, update>>
Sweep == _cleanup_expired_contexts /\ UNCHANGED <<gemini_vars, bm_vars, rg_vars, proc, post, update>>

\* the steps that write self.contexts or the clock (get_user_chat_history
\* only reads)
SweepNext ==
    \/ \E u \in Users : RespondStart(u) /\ UNCHANGED <<gemini_vars, bm_vars, rg_vars, proc, post, update>>
    \/ \E u \in Users : RespondCircuitOpen(u) /\ UNCHANGED <<gemini_vars, bm_vars, rg_vars, proc, post, update>>
    \/ \E c \in responding : RespondSuccess(c) /\ UNCHANGED <<gemini_vars, bm_vars, rg_vars, proc, post, update>>
    \/ \E c \in responding : RespondFallback(c) /\ UNCHANGED <<gemini_vars, bm_vars, rg_vars, proc, post, update>>
    \/ \E c \in responding : RespondError(c) /\ UNCHANGED <<gemini_vars, bm_vars, rg_vars, proc, post, update>>
    \/ SleepOver
    \/ Sweep

\* The event loop resumes the cleanup task when its sleep is over, and time
\* passes: both steps of the task are weakly fair.  Nothing is assumed about
\* the messages of the users or about the backend.
SweepSpec == CtxInit /\ [][SweepNext]_vars /\ WF_vars(SleepOver) /\ WF_vars(Sweep)

\* ============================================ BroadcastManager._send_to_targets
\* The send_to_chat tasks of one broadcast differ only in their target, so
\* they are counted by the await they are suspended at.  The chat type of a
\* target is read when its send has succeeded and is drawn at that moment.

\* `async with semaphore` is entered: the task goes on to send_message
AcquireUnlimited ==
    /\ bm_waiting > 0
    /\ bm_waiting' = bm_waiting - 1
    /\ semaphore' = IF semaphore > 0 THEN semaphore - 1 ELSE 0
    /\ bm_sending' = bm_sending + 1
    /\ UNCHANGED <<bm_sleeping, success_count, failed_count, user_count, group_count,
                   bm_removed, bm_result>>
Acquire ==
    /\ bm_waiting > 0
    /\ semaphore > 0
    /\ bm_waiting' = bm_waiting - 1
    /\ semaphore' = semaphore - 1
    /\ bm_sending' = bm_sending + 1
    /\ UNCHANGED <<bm_sleeping, success_count, failed_count, user_count, group_count,
                   bm_removed, bm_result>>

\* send_message returned: count the success, then sleep(0.05) inside the semaphore
SendOkCountsGroupTwice(private) ==
    /\ bm_sending > 0
    /\ bm_sending' = bm_sending - 1
    /\ bm_sleeping' = bm_sleeping + 1
    /\ success_count' = success_count + 1
    /\ IF private
         THEN user_count' = user_count + 1 /\ UNCHANGED group_count
         ELSE group_count' = group_count + 1 /\ user_count' = user_count + 1
    /\ UNCHANGED <<bm_waiting, semaphore, failed_count, bm_removed, bm_result>>
SendOk(private) ==
    /\ bm_sending > 0
    /\ bm_sending' = bm_sending - 1
    /\ bm_sleeping' = bm_sleeping + 1
    /\ success_count' = success_count + 1
    /\ IF private
         THEN user_count' = user_count + 1 /\ UNCHANGED group_count
         ELSE group_count' = group_count + 1 /\ UNCHANGED user_count
    /\ UNCHANGED <<bm_waiting, semaphore, failed_count, bm_removed, bm_result>>

\* the sleep(0.05) is over: the task leaves `async with semaphore`
SleepDone ==
    /\ bm_sleeping > 0
    /\ bm_sleeping' = bm_sleeping - 1
    /\ semaphore' = semaphore + 1
    /\ UNCHANGED <<bm_waiting, bm_sending, success_count, failed_count, user_count,
                   group_count, bm_removed, bm_result>>

\* send_message raised TelegramAPIError "bot was blocked" / "chat not found":
\* count the failure, call user_manager.remove_chat (which has no await of
\* its own), leave the semaphore
SendGone ==
    /\ bm_sending > 0
    /\ bm_sending' = bm_sending - 1
    /\ failed_count' = failed_count + 1
    /\ bm_removed' = bm_removed + 1
    /\ semaphore' = semaphore + 1
    /\ UNCHANGED <<bm_waiting, bm_sleeping, success_count, user_count, group_count, bm_result>>

\* send_message raised another TelegramAPIError or another Exception
SendFailedUncounted ==
    /\ bm_sending > 0
    /\ bm_sending' = bm_sending - 1
    /\ semaphore' = semaphore + 1
    /\ UNCHANGED <<bm_waiting, bm_sleeping, success_count, failed_count, user_count,
                   group_count, bm_removed, bm_result>>
SendFailed ==
    /\ bm_sending > 0
    /\ bm_sending' = bm_sending - 1
    /\ failed_count' = failed_count + 1
    /\ semaphore' = semaphore + 1
    /\ UNCHANGED <<bm_waiting, bm_sleeping, success_count, user_count, group_count,
                   bm_removed, bm_result>>

\* asyncio.gather has every task's result: _send_to_targets returns
SendReturn ==
    /\ bm_result = None
    /\ bm_waiting = 0 /\ bm_sending = 0 /\ bm_sleeping = 0
    /\ bm_result' = <<[success |-> success_count, failed |-> failed_count,
                       total_users |-> user_count, total_groups |-> group_count,
                       total_targets |-> NumTargets]>>
    /\ UNCHANGED <<bm_waiting, semaphore, bm_sending, bm_sleeping, success_count,
                   failed_count, user_count, group_count, bm_removed>>

\* _send_to_targets has created the semaphore and one task per target
BroadcastInit ==
    /\ GeminiInit
    /\ CmInit
    /\ RgIdle
    /\ Serving
    /\ NoPost
    /\ NoUpdate
    /\ bm_waiting = NumTargets
    /\ semaphore = SemaphoreLimit
    /\ bm_sending = 0
    /\ bm_sleeping = 0
    /\ success_count = 0
    /\ failed_count = 0
    /\ user_count = 0
    /\ group_count = 0
    /\ bm_removed = 0
    /\ bm_result = None

BroadcastNext ==
    \/ Acquire /\ UNCHANGED <<gemini_vars, cm_vars, rg_vars, proc, post, update>>
    \/ \E private \in BOOLEAN : SendOk(private) /\ UNCHANGED <<gemini_vars, cm_vars, rg_vars, proc, post, update>>
    \/ SleepDone /\ UNCHANGED <<gemini_vars, cm_vars, rg_vars, proc, post, update>>
    \/ SendGone /\ UNCHANGED <<gemini_vars, cm_vars, rg_vars, proc, post, update>>
    \/ SendFailed /\ UNCHANGED <<gemini_vars, cm_vars, rg_vars, proc, post, update>>
    \/ SendReturn /\ UNCHANGED <<gemini_vars, cm_vars, rg_vars, proc, post, update>>

BroadcastSpec == BroadcastInit /\ [][BroadcastNext]_vars

\* ====================== UserManager.chats and BroadcastManager.send_broadcast
\* The registry is a dict keyed by chat id: its order decides the order of
\* the target list and nothing else, so it is a function here and the target
\* list is the set of its chat ids.  The type of a chat is a property of the
\* Telegram chat.
ChatIds == 1..NumChats
TargetTypes == {"all", "users", "groups"}
ChatType(c) == CASE c % 3 = 1 -> "private"
                 [] c % 3 = 2 -> "group"
                 [] OTHER -> "supergroup"

\* register_chat stores a fresh entry with is_active True (first_added is kept)
register_chat(cs, c) ==
    [d \in DOMAIN cs \cup {c} |->
        IF d = c THEN [chat_type |-> ChatType(c), is_active |-> TRUE] ELSE cs[d]]

\* remove_chat marks the entry inactive, if there is one
RemoveChatHardDelete(cs, c) == [d \in DOMAIN cs \ {c} |-> cs[d]]
remove_chat(cs, c) ==
    IF c \in DOMAIN cs THEN [cs EXCEPT ![c].is_active = FALSE] ELSE cs

\* get_all_chats: the active entries
GetAllChatsWithInactive(cs) == DOMAIN cs
get_all_chats(cs) == {c \in DOMAIN cs : cs[c].is_active}

\* _get_broadcast_targets: the chat ids of the active entries that pass the
\* two `continue` tests of target_type
_get_broadcast_targets(cs, target_type) ==
    {c \in get_all_chats(cs) :
        /\ ~(target_type = "users" /\ cs[c].chat_type # "private")
        /\ ~(target_type = "groups" /\ cs[c].chat_type = "private")}

\* the dict returned by send_broadcast when the target list is empty
NoTargets == [success |-> 0, failed |-> 0, total_users |-> 0, total_groups |-> 0,
              message |-> "No targets found"]

\* a handler registers a chat (handlers.py: a message or the bot joining a chat)
HandlerRegisterJoins(c) ==
    /\ chats' = register_chat(chats, c)
    /\ IF broadcast.pc = "running" /\ c \notin DOMAIN task
         THEN /\ task' = [d \in DOMAIN task \cup {c} |->
                            IF d = c THEN [pc |-> "waiting", sends |-> 0] ELSE task[d]]
              /\ bm_waiting' = bm_waiting + 1
         ELSE UNCHANGED <<task, bm_waiting>>
    /\ UNCHANGED <<broadcast, semaphore, bm_sending, bm_sleeping, success_count, failed_count,
                   user_count, group_count, bm_removed, bm_result>>
HandlerRegister(c) ==
    /\ chats' = register_chat(chats, c)
    /\ UNCHANGED <<broadcast, task, bm_vars>>

\* a handler deregisters a chat (handlers.py: the bot was removed from it)
HandlerRemove(c) ==
    /\ chats' = remove_chat(chats, c)
    /\ UNCHANGED <<broadcast, task, bm_vars>>

\* send_broadcast up to its first suspension: the target list is built from
\* the registry; an empty list returns at once, otherwise _send_to_targets
\* creates the semaphore and one task per target and awaits gather
SendBroadcastNoEmptyCheck(target_type) ==
    LET targets == _get_broadcast_targets(chats, target_type) IN
    /\ broadcast.pc = "idle"
    /\ broadcast' = [pc |-> "running", target_type |-> target_type]
    /\ task' = [t \in targets |-> [pc |-> "waiting", sends |-> 0]]
    /\ bm_waiting' = Cardinality(targets)
    /\ semaphore' = SemaphoreLimit
    /\ UNCHANGED <<chats, bm_sending, bm_sleeping, success_count, failed_count,
                   user_count, group_count, bm_removed, bm_result>>
send_broadcast(target_type) ==
    LET targets == _get_broadcast_targets(chats, target_type) IN
    /\ broadcast.pc = "idle"
    /\ IF targets = {}
         THEN /\ broadcast' = [pc |-> "done", target_type |-> target_type]
              /\ bm_result' = <<NoTargets>>
              /\ UNCHANGED <<task, bm_waiting, semaphore>>
         ELSE /\ broadcast' = [pc |-> "running", target_type |-> target_type]
              /\ task' = [t \in targets |-> [pc |-> "waiting", sends |-> 0]]
              /\ bm_waiting' = Cardinality(targets)
              /\ semaphore' = SemaphoreLimit
              /\ UNCHANGED bm_result
    /\ UNCHANGED <<chats, bm_sending, bm_sleeping, success_count, failed_count,
                   user_count, group_count, bm_removed>>

\* the task of target t moves from the await `from` to `to`
Moves(t, from, to) ==
    /\ broadcast.pc = "running"
    /\ t \in DOMAIN task
    /\ task[t].pc = from
    /\ task' = [task EXCEPT ![t].pc = to]

\* the steps of send_to_chat for target t: the steps of the counted tasks,
\* with the target they belong to
TaskAcquire(t) ==
    /\ broadcast.pc = "running"
    /\ t \in DOMAIN task
    /\ task[t].pc = "waiting"
    /\ Acquire
    /\ task' = [task EXCEPT ![t] = [pc |-> "sending", sends |-> @.sends + 1]]
    /\ UNCHANGED <<chats, broadcast>>

TaskSendOk(t) ==
    /\ Moves(t, "sending", "sleeping")
    /\ SendOk(ChatType(t) = "private")
    /\ UNCHANGED <<chats, broadcast>>

TaskSleepDone(t) ==
    /\ Moves(t, "sleeping", "ok")
    /\ SleepDone
    /\ UNCHANGED <<chats, broadcast>>

\* "bot was blocked" / "chat not found": remove_chat(target["chat_id"])
TaskSendGone(t) ==
    /\ Moves(t, "sending", "gone")
    /\ SendGone
    /\ chats' = remove_chat(chats, t)
    /\ UNCHANGED broadcast

TaskSendFailed(t) ==
    /\ Moves(t, "sending", "failed")
    /\ SendFailed
    /\ UNCHANGED <<chats, broadcast>>

\* gather has every task's result: _send_to_targets returns its dict and
\* send_broadcast returns it
BroadcastReturnEarly ==
    /\ broadcast.pc = "running"
    /\ bm_sending = 0 /\ bm_sleeping = 0
    /\ bm_result' = <<[success |-> success_count, failed |-> failed_count,
                       total_users |-> user_count, total_groups |-> group_count,
                       total_targets |-> Cardinality(DOMAIN task)]>>
    /\ broadcast' = [broadcast EXCEPT !.pc = "done"]
    /\ UNCHANGED <<chats, task, bm_waiting, semaphore, bm_sending, bm_sleeping, success_count,
                   failed_count, user_count, group_count, bm_removed>>
BroadcastReturn ==
    /\ broadcast.pc = "running"
    /\ bm_waiting = 0 /\ bm_sending = 0 /\ bm_sleeping = 0
    /\ bm_result' = <<[success |-> success_count, failed |-> failed_count,
                       total_users |-> user_count, total_groups |-> group_count,
                       total_targets |-> Cardinality(DOMAIN task)]>>
    /\ broadcast' = [broadcast EXCEPT !.pc = "done"]
    /\ UNCHANGED <<chats, task, bm_waiting, semaphore, bm_sending, bm_sleeping, success_count,
                   failed_count, user_count, group_count, bm_removed>>

RegistryInit == GeminiInit /\ CmInit /\ BmIdle /\ RgIdle /\ Serving /\ NoPost /\ NoUpdate

RegistryNext ==
    \/ \E c \in ChatIds : HandlerRegister(c) /\ UNCHANGED <<gemini_vars, cm_vars, proc, post, update>>
    \/ \E c \in ChatIds : HandlerRemove(c) /\ UNCHANGED <<gemini_vars, cm_vars, proc, post, update>>
    \/ \E target_type \in TargetTypes :
          send_broadcast(target_type) /\ UNCHANGED <<gemini_vars, cm_vars, proc, post, update>>
    \/ \E t \in ChatIds : TaskAcquire(t) /\ UNCHANGED <<gemini_vars, cm_vars, proc, post, update>>
    \/ \E t \in ChatIds : TaskSendOk(t) /\ UNCHANGED <<gemini_vars, cm_vars, proc, post, update>>
    \/ \E t \in ChatIds : TaskSleepDone(t) /\ UNCHANGED <<gemini_vars, cm_vars, proc, post, update>>
    \/ \E t \in ChatIds : TaskSendGone(t) /\ UNCHANGED <<gemini_vars, cm_vars, proc, post, update>>
    \/ \E t \in ChatIds : TaskSendFailed(t) /\ UNCHANGED <<gemini_vars, cm_vars, proc, post, update>>
    \/ BroadcastReturn /\ UNCHANGED <<gemini_vars, cm_vars, proc, post, update>>

RegistrySpec == RegistryInit /\ [][RegistryNext]_vars

\* ======================================= the broadcast commands (handlers.py)
\* A message with one of the three broadcast commands arrives.  Its sender
\* (message.from_user) is None or <<the user id>>; has_text says whether a
\* text follows the command.  The handler answers the sender and, for the
\* owner, awaits send_broadcast first.
Senders == {None, <<7>>, <<BOT_OWNER_ID>>}
Commands == {"broadcast", "broadcast_users", "broadcast_groups"}

\* Settings.is_owner
IsOwnerAnyone(user_id) == TRUE
is_owner(user_id) == user_id = BOT_OWNER_ID

\* the latest command handled, with the answer it got, and the command whose
\* handler is suspended at `await broadcast_manager.send_broadcast(...)`
Update(name, sender, answer, awaiting) ==
    <<[name |-> name, sender |-> sender, answer |-> answer, awaiting |-> awaiting]>>
Awaiting == IF update = None THEN None ELSE update[1].awaiting

\* the body shared by the three handlers: `allowed` is the outcome of the
\* handler's owner test, target_type the argument it gives to send_broadcast
Handle(name, sender, has_text, allowed, target_type) ==
    IF sender = None
      THEN \* message.from_user.id raises AttributeError: `except Exception`
           /\ update' = Update(name, sender, "failed", Awaiting)
           /\ UNCHANGED <<rg_vars, bm_vars>>
      ELSE IF ~allowed
      THEN /\ update' = Update(name, sender, "denied", Awaiting)
           /\ UNCHANGED <<rg_vars, bm_vars>>
      ELSE IF ~has_text
      THEN /\ update' = Update(name, sender, "usage", Awaiting)
           /\ UNCHANGED <<rg_vars, bm_vars>>
      ELSE /\ send_broadcast(target_type)
           /\ update' = IF broadcast'.pc = "done"
                          THEN Update(name, sender, "complete", None)
                          ELSE Update(name, sender, "awaiting", <<[name |-> name, sender |-> sender]>>)

\* /broadcast: `if not settings.is_owner(message.from_user.id)`
broadcast_command(sender, has_text) ==
    Handle("broadcast", sender, has_text, sender # None /\ is_owner(sender[1]), "all")

\* /broadcast_users: `if message.from_user.id != settings.BOT_OWNER_ID`
broadcast_users_command(sender, has_text) ==
    Handle("broadcast_users", sender, has_text, sender # None /\ sender[1] = BOT_OWNER_ID, "users")

\* /broadcast_groups: `if message.from_user.id != settings.BOT_OWNER_ID`
broadcast_groups_command(sender, has_text) ==
    Handle("broadcast_groups", sender, has_text, sender # None /\ sender[1] = BOT_OWNER_ID, "groups")

\* send_broadcast returns to the handler that awaits it, which answers with the counts
CommandComplete ==
    /\ BroadcastReturn
    /\ update' = Update(Awaiting[1].name, Awaiting[1].sender, "complete", None)

CommandInit == RegistryInit

CommandNext ==
    \/ \E c \in ChatIds : HandlerRegister(c) /\ UNCHANGED <<gemini_vars, cm_vars, proc, post, update>>
    \/ \E c \in ChatIds : HandlerRemove(c) /\ UNCHANGED <<gemini_vars, cm_vars, proc, post, update>>
    \/ \E sender \in Senders, has_text \in BOOLEAN :
          broadcast_command(sender, has_text) /\ UNCHANGED <<gemini_vars, cm_vars, proc, post>>
    \/ \E sender \in Senders, has_text \in BOOLEAN :
          broadcast_users_command(sender, has_text) /\ UNCHANGED <<gemini_vars, cm_vars, proc, post>>
    \/ \E sender \in Senders, has_text \in BOOLEAN :
          broadcast_groups_command(sender, has_text) /\ UNCHANGED <<gemini_vars, cm_vars, proc, post>>
    \/ \E t \in ChatIds : TaskAcquire(t) /\ UNCHANGED <<gemini_vars, cm_vars, proc, post, update>>
    \/ \E t \in ChatIds : TaskSendOk(t) /\ UNCHANGED <<gemini_vars, cm_vars, proc, post, update>>
    \/ \E t \in ChatIds : TaskSleepDone(t) /\ UNCHANGED <<gemini_vars, cm_vars, proc, post, update>>
    \/ \E t \in ChatIds : TaskSendGone(t) /\ UNCHANGED <<gemini_vars, cm_vars, proc, post, update>>
    \/ \E t \in ChatIds : TaskSendFailed(t) /\ UNCHANGED <<gemini_vars, cm_vars, proc, post, update>>
    \/ CommandComplete /\ UNCHANGED <<gemini_vars, cm_vars, proc, post>>

CommandSpec == CommandInit /\ [][CommandNext]_vars

\* ================================================== main() and Settings
\* The environment variables that Settings.validate looks at.  A variable
\* is None (not set) or <<the string it is set to>>.
Tokens == {None, <<"">>, <<"token">>}
OwnerIds == {None, <<"abc">>, <<"0">>, <<"42">>, <<"123456789">>}
Temperatures == {None, <<"-1.0">>, <<"0.0">>, <<"2.0">>, <<"2.5">>}
TopPs == {None, <<"-1.0">>, <<"0.0">>, <<"1.0">>, <<"1.01">>}
TopKs == {None, <<"0">>, <<"1">>, <<"100">>, <<"101">>}
Envs == [TELEGRAM_BOT_TOKEN : Tokens, GEMINI_API_KEY : Tokens, BOT_OWNER_ID : OwnerIds,
         AI_TEMPERATURE : Temperatures, AI_TOP_P : TopPs, AI_TOP_K : TopKs]

\* os.getenv(name, default): a string
getenv(value, default) == IF value = None THEN default ELSE value[1]

\* int(s) and float(s) on the strings above: <<the number>>, or None for the
\* ValueError; floats are in hundredths
Ints == ("0" :> 0) @@ ("1" :> 1) @@ ("40" :> 40) @@ ("42" :> 42) @@ ("100" :> 100)
          @@ ("101" :> 101) @@ ("123456789" :> 123456789)
Floats == ("-1.0" :> -100) @@ ("0.0" :> 0) @@ ("0.9" :> 90) @@ ("0.95" :> 95)
          @@ ("1.0" :> 100) @@ ("1.01" :> 101) @@ ("2.0" :> 200) @@ ("2.5" :> 250)
int(str) == IF str \in DOMAIN Ints THEN <<Ints[str]>> ELSE None
float(str) == IF str \in DOMAIN Floats THEN <<Floats[str]>> ELSE None

\* Settings.__init__: the fields that validate reads, or None for a
\* ValueError of int() or float()
SettingsOf(env) ==
    LET owner == int(getenv(env.BOT_OWNER_ID, "123456789"))
        temperature == float(getenv(env.AI_TEMPERATURE, "0.9"))
        top_p == float(getenv(env.AI_TOP_P, "0.95"))
        top_k == int(getenv(env.AI_TOP_K, "40"))
    IN  IF None \in {owner, temperature, top_p, top_k} THEN None
        ELSE <<[TELEGRAM_BOT_TOKEN |-> env.TELEGRAM_BOT_TOKEN,
                GEMINI_API_KEY |-> env.GEMINI_API_KEY,
                BOT_OWNER_ID |-> owner[1],
                AI_TEMPERATURE |-> temperature[1],
                AI_TOP_P |-> top_p[1],
                AI_TOP_K |-> top_k[1]]>>

\* `not value` for a value of os.getenv
Falsy(value) == value = None \/ value = <<"">>

\* Settings.validate: the list of errors, as a set
ValidateWithoutOwner(st) ==
    {e \in {"TELEGRAM_BOT_TOKEN", "GEMINI_API_KEY", "AI_TEMPERATURE", "AI_TOP_P", "AI_TOP_K"} :
        \/ e = "TELEGRAM_BOT_TOKEN" /\ Falsy(st.TELEGRAM_BOT_TOKEN)
        \/ e = "GEMINI_API_KEY" /\ Falsy(st.GEMINI_API_KEY)
        \/ e = "AI_TEMPERATURE" /\ ~(0 <= st.AI_TEMPERATURE /\ st.AI_TEMPERATURE <= 200)
        \/ e = "AI_TOP_P" /\ ~(0 <= st.AI_TOP_P /\ st.AI_TOP_P <= 100)
        \/ e = "AI_TOP_K" /\ ~(1 <= st.AI_TOP_K /\ st.AI_TOP_K <= 100)}
validate(st) ==
    {e \in {"TELEGRAM_BOT_TOKEN", "GEMINI_API_KEY", "BOT_OWNER_ID", "AI_TEMPERATURE",
            "AI_TOP_P", "AI_TOP_K"} :
        \/ e = "TELEGRAM_BOT_TOKEN" /\ Falsy(st.TELEGRAM_BOT_TOKEN)
        \/ e = "GEMINI_API_KEY" /\ Falsy(st.GEMINI_API_KEY)
        \/ e = "BOT_OWNER_ID" /\ (st.BOT_OWNER_ID = 0 \/ st.BOT_OWNER_ID = 123456789)
        \/ e = "AI_TEMPERATURE" /\ ~(0 <= st.AI_TEMPERATURE /\ st.AI_TEMPERATURE <= 200)
        \/ e = "AI_TOP_P" /\ ~(0 <= st.AI_TOP_P /\ st.AI_TOP_P <= 100)
        \/ e = "AI_TOP_K" /\ ~(1 <= st.AI_TOP_K /\ st.AI_TOP_K <= 100)}

\* sys.exit(1) in the `except Exception` of main()
Exit1(health, polling) == Process(proc.env, "exited", health, polling, <<1>>)

\* main() up to its first await: Settings(), settings.validate(), then
\* create_health_server() is entered
Main ==
    /\ proc.pc = "start"
    /\ LET st == SettingsOf(proc.env) IN
       IF st = None \/ validate(st[1]) # {}
         THEN proc' = Exit1("never", FALSE)
         ELSE proc' = Process(proc.env, "health_setup", "never", FALSE, None)
    /\ UNCHANGED <<gemini_vars, cm_vars, bm_vars, rg_vars, post, update>>

\* create_health_server returned: TelegramBot(settings) is built and
\* start_polling is awaited
HealthStarted ==
    /\ proc.pc = "health_setup"
    /\ proc' = Process(proc.env, "polling", "running", TRUE, None)
    /\ UNCHANGED <<gemini_vars, cm_vars, bm_vars, rg_vars, post, update>>

\* create_health_server raised (OSError other than "address in use", or the
\* second port is in use too)
HealthFailed ==
    /\ proc.pc = "health_setup"
    /\ proc' = Exit1("never", FALSE)
    /\ UNCHANGED <<gemini_vars, cm_vars, bm_vars, rg_vars, post, update>>

\* create_health_server returned and TelegramBot(settings) raised
BotInitFailed ==
    /\ proc.pc = "health_setup"
    /\ proc' = Exit1("running", FALSE)
    /\ UNCHANGED <<gemini_vars, cm_vars, bm_vars, rg_vars, post, update>>

\* start_polling raised: the `finally` stops the health server, then exit
PollingFailed ==
    /\ proc.pc = "polling"
    /\ proc' = Exit1("stopped", TRUE)
    /\ UNCHANGED <<gemini_vars, cm_vars, bm_vars, rg_vars, post, update>>

\* start_polling returned: the health server is stopped and main() returns
PollingReturned ==
    /\ proc.pc = "polling"
    /\ proc' = Process(proc.env, "exited", "stopped", TRUE, <<0>>)
    /\ UNCHANGED <<gemini_vars, cm_vars, bm_vars, rg_vars, post, update>>

StartupInit ==
    /\ GeminiInit /\ CmInit /\ BmIdle /\ RgIdle /\ NoPost /\ NoUpdate
    /\ \E env \in Envs : proc = Process(env, "start", "never", FALSE, None)

StartupNext ==
    \/ Main
    \/ HealthStarted
    \/ HealthFailed
    \/ BotInitFailed
    \/ PollingFailed
    \/ PollingReturned

StartupSpec == StartupInit /\ [][StartupNext]_vars

\* ================================== GeminiClient._post_process_response
\* A text is given by the lengths of the pieces that text.split('. ') yields
\* and by whether it ends with '.'.  The texts looked at have no '*', no
\* white space at either end (generate_response strips the text first) and
\* no piece that ends with '.' except the last; an unwanted phrase, if there
\* is one, is in the first piece.  The text has `n` pieces, the first of
\* length `first` and the others of length `rest`.
FirstLengths == {2, 60, 801}
RestLengths == {6, 300}
\* len(ending) - 1 for the five casual_endings; 0: random.random() >= 0.2
Endings == {0, 3, 4, 1, 6, 9}
Inputs == [first : FirstLengths, rest : RestLengths, n : 1..MaxSentences, unwanted : BOOLEAN,
           dot : BOOLEAN, tone : {"casual", "formal"}, ending : Endings]

Text(pieces, dot) == [pieces |-> pieces, dot |-> dot]

\* the sum of the entries lo..hi of the sequence of lengths
RECURSIVE Sum(_, _, _)
Sum(pieces, lo, hi) ==
    IF lo > hi THEN 0
    ELSE IF lo = hi THEN pieces[lo]
    ELSE LET mid == (lo + hi) \div 2
         IN  Sum(pieces, lo, mid) + Sum(pieces, mid + 1, hi)

\* char_count after k iterations of the loop: the sum of the first k lengths
Total(pieces, k) == Sum(pieces, 1, k)

\* len('. '.join(pieces))
Length(pieces) ==
    IF pieces = << >> THEN 0 ELSE Total(pieces, Len(pieces)) + 2 * (Len(pieces) - 1)

\* lines 120-123: the pieces with an unwanted phrase are dropped
Filtered(in) ==
    LET pieces == [i \in 1..in.n |-> IF i = 1 THEN in.first ELSE in.rest]
    IN  IF in.unwanted
          THEN Text(Tail(pieces), in.dot /\ in.n > 1)
          ELSE Text(pieces, in.dot)

\* lines 124-129: the final '.' is replaced by a casual ending
WithEnding(t, tone, ending) ==
    IF t.dot /\ tone = "casual" /\ Length(t.pieces) > CasualMinLength /\ ending > 0
      THEN Text([t.pieces EXCEPT ![Len(t.pieces)] = @ + ending], FALSE)
      ELSE t

\* lines 134-138: after k pieces the loop ends, at the end of the list or at
\* the `break`
Stops(pieces, k) == k = Len(pieces) \/ Total(pieces, k) + pieces[k + 1] > SentenceBudget

\* The number of pieces taken: the least k of lo..hi at which the loop
\* stops.  char_count never decreases, so the loop that stops at k would
\* stop at every later k as well, and the least one is found by bisection.
RECURSIVE Kept(_, _, _)
Kept(pieces, lo, hi) ==
    IF lo = hi THEN lo
    ELSE LET mid == (lo + hi) \div 2
         IN  IF Stops(pieces, mid) THEN Kept(pieces, lo, mid) ELSE Kept(pieces, mid + 1, hi)

\* lines 130-145: the length of the result, how it was cut, the pieces kept
Truncated(t) ==
    IF Length(t.pieces) > MaxReplyLength
      THEN LET k == Kept(t.pieces, 0, Len(t.pieces))
               ends_with_dot == k = Len(t.pieces) /\ t.dot
           IN  IF k > 0
                 THEN [len |-> Length(SubSeq(t.pieces, 1, k)) + (IF ends_with_dot THEN 0 ELSE 1),
                       cut |-> "pieces", kept |-> k, of |-> Len(t.pieces)]
                 ELSE [len |-> SentenceBudget + 3, cut |-> "characters", kept |-> 0,
                       of |-> Len(t.pieces)]
      ELSE [len |-> Length(t.pieces), cut |-> "none", kept |-> Len(t.pieces),
            of |-> Len(t.pieces)]

_post_process_response ==
    /\ post.out = None
    /\ post' = [post EXCEPT !.out =
                   <<Truncated(WithEnding(Filtered(post.in), post.in.tone, post.in.ending))>>]
    /\ UNCHANGED <<gemini_vars, cm_vars, bm_vars, rg_vars, proc, update>>

PostInit ==
    /\ GeminiInit /\ CmInit /\ BmIdle /\ RgIdle /\ Serving /\ NoUpdate
    /\ \E in \in Inputs : post = [in |-> in, out |-> None]

PostNext == _post_process_response

PostSpec == PostInit /\ [][PostNext]_vars

\* ------------------------------------------------------- shared notions
\* the circuit is open and the reset window has not passed (now <= resetAt)
InWindow == circuit_open /\ circuit_reset_time # None /\ now <= circuit_reset_time[1]
\* the circuit is open and the reset window has passed (now > resetAt)
PastWindow == circuit_open /\ circuit_reset_time # None /\ now > circuit_reset_time[1]
\* the latest step was the start of a call
CallOps == {"attempt", "reset_attempt", "circuit_open"}
\* the latest step ended a call in GenerationFailed
TerminalFailureOps == {"empty", "error", "exhausted"}
\* no key index occurs twice in u
NoDup(u) == \A i, j \in 1..Len(u) : i # j => u[i] # u[j]

\* ------------------------------------------------------------------- C1
\* C1: once max_failures consecutive terminal failures have happened (and no
\* success or window expiry since), the circuit is open with a reset time and
\* a call made while now <= resetAt returns at the circuit check without an
\* attempt; a call made after now > resetAt is attempted against the backend.
ClaimC1 ==
    [][ /\ (consecutive = max_failures) =>
              /\ circuit_open /\ circuit_reset_time # None
              /\ (now <= circuit_reset_time[1] /\ last' \in CallOps) =>
                    (last' = "circuit_open" /\ inflight' = inflight)
        /\ (PastWindow /\ last' \in CallOps) =>
              (last' = "reset_attempt" /\ inflight' = inflight (+) One(<<client>>))
      ]_vars

\* ------------------------------------------------------------------- C2
\* C2: every step that ends a call in a terminal failure (empty response,
\* non-quota error, rotation exhausted) leaves failure_count one higher.
ClaimC2 ==
    [][ last' \in TerminalFailureOps => failure_count' = failure_count + 1 ]_vars

\* ------------------------------------------------------------------- C3
\* C3: the terminal failure that makes max_failures consecutive ones leaves
\* the circuit open with resetAt = now + 300; a call started within that
\* window makes no attempt; with fewer than max_failures recorded failures
\* the circuit is closed.
ClaimC3 ==
    [][ /\ (consecutive = max_failures - 1 /\ consecutive' = max_failures) =>
              (circuit_open' /\ circuit_reset_time' = <<now + ResetWindow>>)
        /\ (InWindow /\ last' \in CallOps) =>
              (last' = "circuit_open" /\ inflight' = inflight)
        /\ (failure_count < max_failures => ~circuit_open)
      ]_vars

\* ------------------------------------------------------------------- C4
\* C4: a call that starts while the circuit is open and now <= resetAt
\* returns at the circuit check: no call joins the calls at the backend, and
\* the cursor, the circuit state and the calls in flight are untouched.
ThmC4 ==
    [][ InWindow =>
          /\ BagCardinality(inflight') <= BagCardinality(inflight)
          /\ (last' \in CallOps) =>
                (last' = "circuit_open" /\ UNCHANGED <<cursor, circuit, inflight>>)
      ]_vars
\* a call has just been rejected inside the window
WitC4 == InWindow /\ last = "circuit_open"

\* ------------------------------------------------------------------- C5
\* C5: a quota failure of an attempt on credential i is followed by an
\* attempt on (i+1) mod N while fewer than N attempts were made; a call never
\* makes more than N attempts; the N-th quota failure ends the call.
ClaimC5 ==
    [][ /\ \A u \in Calls : Len(u) <= NumKeys
        /\ (last' \in {"retry", "exhausted"}) =>
              \E u \in Calls :
                 IF Len(u) < NumKeys
                   THEN /\ last' = "retry"
                        /\ inflight' = Replace(u, Append(u, (u[Len(u)] + 1) % NumKeys))
                   ELSE /\ last' = "exhausted"
                        /\ inflight' = inflight (-) One(u)
      ]_vars

\* ------------------------------------------------------------------- C6
\* C6: under any interleaving, the attempts of one call are on pairwise
\* different credentials.
ClaimC6 == \A u \in Calls : NoDup(u)

\* ------------------------------------------------------------------- C7
\* C7: the step that handles a non-quota error or an empty response adds
\* exactly one to failure_count, ends that call without a further attempt
\* (no other call is touched) and leaves the cursor unchanged.
ThmC7 ==
    [][ (last' \in {"empty", "error"}) =>
          /\ failure_count' = failure_count + 1
          /\ UNCHANGED cursor
          /\ \E u \in Calls : inflight' = inflight (-) One(u)
      ]_vars
\* a call has just ended on a non-quota error, after an earlier rotation
WitC7 == last = "error" /\ failure_count = 1 /\ current_index = 1

\* ------------------------------------------------------------------- C8
\* C8: the cursor is always a valid index of the pool, changes only by
\* i -> (i+1) mod len(pool), and the client is the one of the cursor.
ThmC8 ==
    [][ /\ current_index \in Keys
        /\ current_index' \in Keys
        /\ (current_index' # current_index =>
                current_index' = (current_index + 1) % NumKeys)
        /\ client' = current_index'
      ]_vars
\* the cursor has wrapped around and a call retries on credential 0
WitC8 ==
    /\ current_index = 0
    /\ last = "retry"
    /\ \E u \in Calls : Len(u) >= 2 /\ u[Len(u)] = 0

\* ------------------------------------------------------------------- C9
\* C9: whenever circuit_open is true, circuit_reset_time is set.
ThmC9 == circuit_open => circuit_reset_time # None
\* the circuit is open and a call that was in flight has failed after it opened
WitC9 == circuit_open /\ failure_count > max_failures

\* ------------------------------------------------------------------ C10
\* C10: a call that finds the circuit open with now > resetAt closes it,
\* sets failure_count to 0 and clears the reset time in the same step, and
\* starts its attempt; the circuit is opened only by the failure that takes
\* failure_count from max_failures - 1 to max_failures.
ThmC10 ==
    [][ /\ (PastWindow /\ last' \in CallOps) =>
              /\ last' = "reset_attempt"
              /\ ~circuit_open' /\ failure_count' = 0 /\ circuit_reset_time' = None
              /\ inflight' = inflight (+) One(<<client>>)
        /\ (~circuit_open /\ circuit_open') =>
              /\ failure_count = max_failures - 1
              /\ failure_count' = max_failures
              /\ last' \in {"empty", "error"}
      ]_vars
\* a call made after the window has just reset the circuit and is at the backend
WitC10 ==
    /\ last = "reset_attempt"
    /\ inflight # EmptyBag
    /\ now > ResetWindow
    /\ failure_count = 0
    /\ ~circuit_open
    /\ circuit_reset_time = None

\* ------------------------------------------------------------------ C11
\* C11: the step in which a call returns a non-empty backend text leaves
\* failure_count at 0 and the circuit closed and ends that call; the circuit
\* goes from closed to open only when max_failures terminal failures have
\* happened with no success among them.
ThmC11 ==
    [][ /\ (last' = "text") =>
              /\ failure_count' = 0
              /\ ~circuit_open'
              /\ \E u \in Calls : inflight' = inflight (-) One(u)
        /\ (~circuit_open /\ circuit_open') => consecutive' = max_failures
      ]_vars
\* a success has just closed a circuit that max_failures failures had opened
WitC11 ==
    /\ last = "text"
    /\ failure_count = 0
    /\ ~circuit_open
    /\ circuit_reset_time # None

\* ------------------------------------------------------------------ C12
\* C12: under any interleaving of the calls, failure_count moves only as the
\* recorded events say: +1 on each recorded failure (empty response,
\* non-quota error), to 0 on a success or a circuit reset, unchanged by every
\* other step; the recorded failure that makes it max_failures opens the
\* circuit and nothing else takes the circuit from closed to open.
ThmC12 ==
    [][ /\ (last' \in {"empty", "error"}) => failure_count' = failure_count + 1
        /\ (last' \in {"text", "reset_attempt"}) => failure_count' = 0
        /\ (last' \notin {"empty", "error", "text", "reset_attempt"}) =>
              failure_count' = failure_count
        /\ (last' \in {"empty", "error"} /\ failure_count' = max_failures) =>
              circuit_open'
        /\ (~circuit_open /\ circuit_open') =>
              (last' \in {"empty", "error"} /\ failure_count' = max_failures)
      ]_vars
\* the max_failures-th failure has just been recorded while another call is
\* still at the backend
WitC12 ==
    /\ last \in {"empty", "error"}
    /\ failure_count = max_failures
    /\ circuit_open
    /\ inflight # EmptyBag

\* ------------------------------------------- conversation manager notions
\* the latest step appended a message to the context object cm_last.obj
AppendOps == {"start", "rejected", "success"}
\* the latest step ended a get_response call without a generated text
FailOps == {"rejected", "fallback", "error"}
\* the messages of the object o in the heap h; none if h has no such object
MessagesOf(h, o) == IF o \in DOMAIN h THEN h[o].messages ELSE << >>
\* the smaller of two numbers
Min(a, b) == IF a <= b THEN a ELSE b
\* b is a with one message appended, cut to the newest MaxMessages
AppendedTo(a, b) ==
    /\ Len(b) = Min(MaxMessages, Len(a) + 1)
    /\ \A i \in 1..(Len(b) - 1) : b[i] = a[Len(a) - (Len(b) - 1) + i]

\* ------------------------------------------------------------------ C13
\* C13: every add_message leaves the history of its context at length
\* min(20, length before + 1), with the new message last and before it the
\* newest earlier messages in their order; no history is ever longer than 20.
ThmC13 ==
    [][ /\ \A o \in DOMAIN heap' : Len(heap'[o].messages) <= MaxMessages
        /\ (cm_last'.op \in AppendOps /\ cm_last'.obj \in DOMAIN heap') =>
              LET before == MessagesOf(heap, cm_last'.obj)
                  after  == heap'[cm_last'.obj].messages
              IN  /\ AppendedTo(before, after)
                  /\ after[Len(after)].content \in
                        {<<"msg", cm_last'.id>>, <<"enh", cm_last'.id>>}
      ]_vars
\* a reply has just been appended to a full history: the oldest message is gone
WitC13 ==
    /\ cm_last.op = "success"
    /\ cm_last.obj \in DOMAIN heap
    /\ Len(heap[cm_last.obj].messages) = MaxMessages
    /\ heap[cm_last.obj].messages[1].content = <<"old", 2>>

\* ------------------------------------------------------------------ C14
\* C14: a get_response call for a user whose stored context is expired gets a
\* new object, which replaces the stored one and holds nothing but the
\* message of this call; no turn of the old context is in the history sent
\* to the backend; the context a call gets is never expired.
ThmC14 ==
    [][ (cm_last'.op \in {"start", "rejected"}) =>
          LET u == cm_last'.user
              o == cm_last'.obj
          IN  /\ ~is_expired(heap'[o], hour')
              /\ (u \in Stored /\ is_expired(heap[ObjOf(u)], hour)) =>
                    /\ cm_last'.reset
                    /\ o \notin DOMAIN heap
                    /\ \E i \in DOMAIN contexts' : contexts'[i] = <<u, o>>
                    /\ heap'[o].messages =
                          <<[role |-> "user", content |-> <<"msg", cm_last'.id>>]>>
                    /\ \A c \in responding' \ responding :
                          \A i \in DOMAIN c.history :
                             \A j \in DOMAIN heap[ObjOf(u)].messages :
                                c.history[i].text # heap[ObjOf(u)].messages[j].content
              /\ (u \in Stored /\ ~is_expired(heap[ObjOf(u)], hour)) =>
                    (~cm_last'.reset /\ o = ObjOf(u))
      ]_vars
\* a call has just replaced an expired context and is at the backend
WitC14 ==
    /\ cm_last.op = "start"
    /\ cm_last.reset
    /\ hour > CONTEXT_TIMEOUT_HOURS
    /\ Len(heap[cm_last.obj].messages) = 1

\* ------------------------------------------------------------------ C15
\* C15: after one iteration of the cleanup task no expired context is left
\* in the store.
ClaimC15 ==
    [][ (cm_last'.op = "sweep") =>
          \A i \in DOMAIN contexts' : ~is_expired(heap'[contexts'[i][2]], hour')
      ]_vars

\* ------------------------------------------------------------------ C16
\* C16: get_user_chat_history changes neither the dict of contexts nor any
\* context (messages, last_activity, language, tone) nor any call, creates
\* no context, and its value for a user without a context is the empty list.
ThmC16 ==
    [][ (cm_last'.op = "snapshot") =>
          /\ UNCHANGED <<contexts, heap, hour, started, responding, slept>>
          /\ \A l \in Limits :
                /\ cm_last'.user \notin Stored => ChatHistory(cm_last'.user, l) = << >>
                /\ cm_last'.user \in Stored =>
                      Len(ChatHistory(cm_last'.user, l)) =
                         IF l = 0 THEN Len(heap[ObjOf(cm_last'.user)].messages)
                         ELSE Min(l, Len(heap[ObjOf(cm_last'.user)].messages))
      ]_vars
\* the history of a user without a context has just been asked for
WitC16 ==
    /\ cm_last.op = "snapshot"
    /\ cm_last.user \notin Stored
    /\ contexts # << >>

ThmC18 ==
    [][ (cm_last'.op = "success") =>
          /\ cm_last'.ret # None
          /\ cm_last'.ret[1].from = "generated"
          /\ (cm_last'.obj \in DOMAIN heap') =>
                LET before == heap[cm_last'.obj].messages
                    after  == heap'[cm_last'.obj].messages
                IN  /\ AppendedTo(before, after)
                    /\ after[Len(after)] =
                          [role |-> "assistant", content |-> cm_last'.ret[1].text]
                    /\ \E i \in 1..(Len(after) - 1) :
                          after[i] = [role |-> "user", content |-> <<"msg", cm_last'.id>>]
          /\ \A o \in (DOMAIN heap') \ {cm_last'.obj} : heap'[o] = heap[o]
      ]_vars
\* the reply of a call has just been appended to the stored context of its
\* user, right after the message of that call
WitC18 ==
    /\ cm_last.op = "success"
    /\ cm_last.user \in Stored
    /\ ObjOf(cm_last.user) = cm_last.obj
    /\ LET m == heap[cm_last.obj].messages
       IN  /\ Len(m) >= 2
           /\ m[Len(m)] = [role |-> "assistant", content |-> <<"enh", cm_last.id>>]
           /\ m[Len(m) - 1] = [role |-> "user", content |-> <<"msg", cm_last.id>>]

\* ------------------------------------------------------------------ C19
\* C19: the history a get_response call passes to generate_response holds at
\* most 8 turns, none of them the current message, so that the contents sent
\* to the backend hold the current message exactly once.
ClaimC19 ==
    \A c \in responding :
       /\ Len(c.history) <= RecentLimit
       /\ \A i \in DOMAIN c.history : c.history[i].text # <<"msg", c.id>>
       /\ LET contents == Contents(c.history, <<"msg", c.id>>)
          IN  Cardinality({i \in DOMAIN contents : contents[i].text = <<"msg", c.id>>}) = 1

\* ------------------------------------------------------------------ C20
\* C20: during a broadcast to more targets than the semaphore admits, the
\* number of tasks inside send_message never exceeds 20: the tasks inside
\* `async with semaphore` (sending or in their sleep) and the free permits
\* always add up to 20.
ThmC20 ==
    /\ NumTargets > SemaphoreLimit
    /\ semaphore >= 0
    /\ bm_sending <= SemaphoreLimit
    /\ bm_sending + bm_sleeping + semaphore = SemaphoreLimit
\* 20 sends are in flight and a task is waiting for the semaphore
WitC20 ==
    /\ bm_sending = SemaphoreLimit
    /\ semaphore = 0
    /\ bm_waiting > 0

\* ------------------------------------------------------------------ C21
\* C21: the dict returned by _send_to_targets has success + failed equal to
\* total_targets, whatever the mix of successes, permanent failures and
\* other failures and whatever the order in which the tasks finish; until
\* then every target is waiting, in send_message, or counted once.
ThmC21 ==
    /\ bm_waiting + bm_sending + success_count + failed_count = NumTargets
    /\ bm_result # None =>
          /\ bm_result[1].success + bm_result[1].failed = bm_result[1].total_targets
          /\ bm_result[1].total_targets = NumTargets
\* a result with successes, permanent failures and other failures
WitC21 ==
    /\ bm_result # None
    /\ bm_result[1].success > 0
    /\ bm_removed > 0
    /\ bm_result[1].failed > bm_removed

\* ----------------------------------------- notions of the registry claims
\* the step is the start of send_broadcast
StartStep == broadcast.pc = "idle" /\ broadcast'.pc # "idle"
\* the task of t has ended
Ended(t) == task[t].pc \in {"ok", "gone", "failed"}

\* ------------------------------------------------------------------ C22
\* C22: no step of a broadcast changes the chat registry: while the tasks of
\* send_broadcast run, a step of a task leaves self.chats as it was.
ClaimC22 == [][task' # task => chats' = chats]_vars

\* ------------------------------------------------------------------ C23
\* C23: the result of a broadcast carries the list of the destinations it
\* flags for deregistration, and that list is exactly the set of the targets
\* whose send failed with "bot was blocked" / "chat not found".
ClaimC23 ==
    (broadcast.pc = "done" /\ bm_result # None /\ \E t \in DOMAIN task : task[t].pc = "gone") =>
        /\ "deregister" \in DOMAIN bm_result[1]
        /\ bm_result[1].deregister = {t \in DOMAIN task : task[t].pc = "gone"}

\* ------------------------------------------------------------------ C24
\* C24: every target of a broadcast gets exactly one send_message call: no
\* task sends twice, a task past the semaphore has sent once, a failed send
\* of one target leaves the other tasks able to go on, and the result exists
\* only when every task has ended after its one send.
ThmC24 ==
    /\ \A t \in DOMAIN task :
          /\ task[t].sends = (IF task[t].pc = "waiting" THEN 0 ELSE 1)
    /\ (broadcast.pc = "running" /\ \E t \in DOMAIN task : ~Ended(t)) =>
          \E t \in DOMAIN task :
             ENABLED (TaskAcquire(t) \/ TaskSendOk(t) \/ TaskSleepDone(t)
                        \/ TaskSendGone(t) \/ TaskSendFailed(t))
    /\ bm_result # None =>
          \A t \in DOMAIN task : Ended(t) /\ task[t].sends = 1
\* a broadcast has returned after a success, a permanent and another failure
WitC24 ==
    /\ broadcast.pc = "done"
    /\ bm_result # None
    /\ \E a, b, c \in DOMAIN task :
          task[a].pc = "ok" /\ task[b].pc = "gone" /\ task[c].pc = "failed"

\* ------------------------------------------------------------------ C25
\* C25: the targets of a broadcast are those of the list built when it
\* started: while it runs no step adds or removes a task or takes back a
\* send, whatever is registered or deregistered meanwhile, and when it
\* returns every one of them has had its send.
ThmC25 ==
    [][broadcast.pc = "running" =>
          /\ DOMAIN task' = DOMAIN task
          /\ \A t \in DOMAIN task : task'[t].sends >= task[t].sends
          /\ chats' # chats /\ task' = task => UNCHANGED <<bm_vars, broadcast>>
          /\ broadcast'.pc = "done" => \A t \in DOMAIN task : task'[t].sends = 1]_vars
\* a broadcast to all has returned; one of its targets was deregistered
\* meanwhile and still got its message, and a chat that is active now was
\* not a target
WitC25 ==
    /\ broadcast = [pc |-> "done", target_type |-> "all"]
    /\ \E t \in DOMAIN task : task[t].pc = "ok" /\ ~chats[t].is_active
    /\ \E c \in get_all_chats(chats) : c \notin DOMAIN task

\* ------------------------------------------------------------------ C26
\* C26: when the target list is empty, send_broadcast returns at once the
\* dict with success 0, failed 0, total_users 0 and total_groups 0, creates
\* no task, sends nothing and leaves the registry as it was.
ThmC26 ==
    [][(StartStep /\ _get_broadcast_targets(chats, broadcast'.target_type) = {}) =>
          /\ broadcast'.pc = "done"
          /\ bm_result' = <<NoTargets>>
          /\ bm_result'[1].success = 0 /\ bm_result'[1].failed = 0
          /\ bm_result'[1].total_users = 0 /\ bm_result'[1].total_groups = 0
          /\ task' = << >>
          /\ bm_waiting' = 0 /\ bm_sending' = 0
          /\ chats' = chats]_vars
\* a broadcast to the groups of a registry without an active group has returned
WitC26 ==
    /\ broadcast = [pc |-> "done", target_type |-> "groups"]
    /\ bm_result = <<NoTargets>>
    /\ task = << >>
    /\ get_all_chats(chats) # {}
    /\ \E c \in DOMAIN chats : ~chats[c].is_active /\ chats[c].chat_type # "private"

\* ------------------------------------------------------------------ C27
\* C27: the tasks created at the start of a broadcast are those of the
\* active private chats for 'users', of the active chats that are not
\* private for 'groups' and of all active chats for 'all'; an inactive chat
\* gets no task.
ThmC27 ==
    [][StartStep =>
          /\ DOMAIN task' =
                CASE broadcast'.target_type = "users" ->
                       {c \in DOMAIN chats : chats[c].is_active /\ chats[c].chat_type = "private"}
                  [] broadcast'.target_type = "groups" ->
                       {c \in DOMAIN chats : chats[c].is_active /\ chats[c].chat_type # "private"}
                  [] broadcast'.target_type = "all" ->
                       {c \in DOMAIN chats : chats[c].is_active}
          /\ \A c \in DOMAIN chats : ~chats[c].is_active => c \notin DOMAIN task']_vars
\* a broadcast to the groups has just started: a group and a supergroup are
\* targets, an active private chat and an inactive chat are not
WitC27 ==
    /\ broadcast = [pc |-> "running", target_type |-> "groups"]
    /\ \A t \in DOMAIN task : task[t].pc = "waiting"
    /\ \E t \in DOMAIN task : ChatType(t) = "supergroup"
    /\ \E t \in DOMAIN task : ChatType(t) = "group"
    /\ \E c \in get_all_chats(chats) : c \notin DOMAIN task

\* ------------------------------------------------------------------ C28
\* C28: no step deletes a registry entry; a chat that becomes inactive keeps
\* its entry and its chat type; an inactive chat is in no target list;
\* a chat that is registered (again) is active and is a target of 'all'.
ThmC28 ==
    [][\A c \in ChatIds :
          /\ c \in DOMAIN chats => c \in DOMAIN chats'
          /\ (c \in DOMAIN chats /\ chats[c].is_active /\ ~chats'[c].is_active) =>
                chats'[c].chat_type = chats[c].chat_type
          /\ (c \in DOMAIN chats' /\ ~chats'[c].is_active) =>
                \A target_type \in TargetTypes :
                   c \notin _get_broadcast_targets(chats', target_type)
          /\ (c \in DOMAIN chats' /\ chats'[c].is_active) =>
                c \in _get_broadcast_targets(chats', "all")
          /\ (chats' = register_chat(chats, c) /\ chats' # chats) =>
                chats'[c].is_active]_vars
\* a chat that the running broadcast deregistered is active again, and an
\* inactive chat is in the registry without a task
WitC28 ==
    /\ broadcast.pc = "running"
    /\ \E t \in DOMAIN task : task[t].pc = "gone" /\ chats[t].is_active
    /\ \E c \in DOMAIN chats : ~chats[c].is_active /\ c \notin DOMAIN task

\* every call in flight is within its loop and can take a return of its
\* backend call
CanReturn ==
    \A u \in Calls :
       /\ Len(u) >= 1 /\ Len(u) <= NumKeys
       /\ ENABLED (Success(u) \/ EmptyResponse(u) \/ OtherError(u) \/ QuotaError(u))

\* ------------------------------------------------------------------ C29
\* C29: a call of generate_response ends after at most len(api_keys) round
\* trips to the backend.  Whenever a call starts a round trip, every call
\* in flight has made between 1 and len(api_keys) round trips and can take
\* the return of its backend call; a return either ends the call or, after
\* a quota error with fewer than len(api_keys) round trips made, gives it
\* exactly one more; a call that ends as exhausted has made len(api_keys);
\* a call made while the circuit is open ends with no round trip at all.
ThmC29 ==
    [][CASE last' = "circuit_open" -> inflight' = inflight
         [] last' \in {"attempt", "reset_attempt"} ->
               /\ BagCardinality(inflight') = BagCardinality(inflight) + 1
               /\ \E u \in BagToSet(inflight') : Len(u) = 1
               /\ CanReturn'
         [] last' = "retry" ->
               /\ BagCardinality(inflight') = BagCardinality(inflight)
               /\ \E u \in Calls : Len(u) < NumKeys /\ BagIn(Append(u, client'), inflight')
               /\ CanReturn'
         [] last' = "exhausted" ->
               \E u \in Calls : Len(u) = NumKeys /\ inflight' = inflight (-) One(u)
         [] last' \in {"text", "empty", "error"} ->
               BagCardinality(inflight') = BagCardinality(inflight) - 1
         [] OTHER -> inflight' = inflight]_vars
\* a call has had a quota error and is in its last round trip
WitC29 ==
    /\ last = "retry"
    /\ \E u \in Calls : Len(u) = NumKeys

\* ------------------------------------------------------------------ C30
\* C30: a step of get_response that appends a turn writes it to the context
\* object that self.contexts holds for that user when the step is taken,
\* never to an object that the cleanup has removed or that another call has
\* replaced.
ClaimC30 ==
    cm_last.op \in AppendOps =>
        \E i \in DOMAIN contexts : contexts[i] = <<cm_last.user, cm_last.obj>>

\* the entry stored for user u is expired
ExpiredEntry(u) == u \in Stored /\ is_expired(heap[ObjOf(u)], hour)

\* ------------------------------------------------------------------ C31
\* C31: the cleanup task goes on after an iteration that failed: whenever
\* the store holds expired entries, a time follows at which it holds none.
\* Each of them is removed by a later iteration, unless a message of its
\* user has replaced or refreshed it before; without further messages only
\* the cleanup can end its stay.
ThmC31 == (\E u \in Users : ExpiredEntry(u)) ~> (\A u \in Users : ~ExpiredEntry(u))
\* every entry has been removed, by two iterations at least, the first of
\* which raised after its first `del`
WitC31 ==
    /\ contexts = << >>
    /\ cm_last.op = "sweep"
    /\ started = 0

\* the environment does not give a valid configuration
InvalidEnv(env) ==
    \/ env.TELEGRAM_BOT_TOKEN \in {None, <<"">>}
    \/ env.GEMINI_API_KEY \in {None, <<"">>}
    \/ env.BOT_OWNER_ID \in {None, <<"abc">>, <<"0">>, <<"123456789">>}
    \/ env.AI_TEMPERATURE \in {<<"-1.0">>, <<"2.5">>}
    \/ env.AI_TOP_P \in {<<"-1.0">>, <<"1.01">>}
    \/ env.AI_TOP_K \in {<<"0">>, <<"101">>}

\* ------------------------------------------------------------------ C32
\* C32: with an invalid configuration the process never starts the health
\* server and never calls start_polling, and the first step of main() ends
\* the process with exit status 1.
ThmC32 ==
    InvalidEnv(proc.env) =>
        /\ proc.health = "never"
        /\ ~proc.polling
        /\ proc.pc \in {"start", "exited"}
        /\ proc.pc = "exited" => proc.status = <<1>>
\* the process has exited with status 1 for a numeric setting out of range
WitC32 ==
    /\ proc.pc = "exited"
    /\ proc.status = <<1>>
    /\ proc.env.TELEGRAM_BOT_TOKEN = <<"token">> /\ proc.env.GEMINI_API_KEY = <<"token">>
    /\ proc.env.BOT_OWNER_ID = <<"42">>
    /\ proc.env.AI_TEMPERATURE = None /\ proc.env.AI_TOP_P = None
    /\ proc.env.AI_TOP_K = <<"101">>

\* ------------------------------------------------------------------ C33
\* C33: the text returned by _post_process_response has at most 1000
\* characters; when it was cut, whole trailing pieces were dropped, and it
\* was cut inside a piece only if the first piece alone is longer than the
\* budget of the pieces.
ClaimC33 ==
    post.out # None =>
        /\ post.out[1].len <= MaxReplyLength
        /\ post.out[1].cut = "characters" => post.in.first > SentenceBudget

\* the circuit is open and its reset time has not passed
Refusing == circuit_open /\ circuit_reset_time # None /\ now <= circuit_reset_time[1]

\* ------------------------------------------------------------------ C34
\* C34: no backend call is started while the circuit is open and the clock is
\* not past the reset time, neither the first attempt of a call nor a retry
\* of a call that passed the circuit check before the circuit opened.
ClaimC34 == last \in {"attempt", "reset_attempt", "retry"} => ~Refusing

\* ------------------------------------------------------------------ C35
\* C35: while the circuit is open and the clock is not past the reset time,
\* the completion of a call in flight leaves the circuit open and leaves the
\* reset time as it is.
ClaimC35 ==
    [][(Refusing /\ last' \in {"text", "empty", "error", "exhausted"})
          => (circuit_open' /\ circuit_reset_time' = circuit_reset_time)]_vars

\* ------------------------------------------------------------------ C36
\* C36: an iteration of the cleanup task removes no context whose
\* last_activity is at most the timeout ago and changes no context it keeps;
\* a get_response call for a user with such a context does not replace it;
\* every add_message sets last_activity of its context to the present hour.
ThmC36 ==
    [][ /\ (cm_last'.op = "sweep") =>
              \A i \in DOMAIN contexts :
                 LET o == contexts[i][2]
                 IN  /\ hour - heap[o].last_activity <= CONTEXT_TIMEOUT_HOURS =>
                           \E j \in DOMAIN contexts' : contexts'[j] = contexts[i]
                     /\ o \in DOMAIN heap' => heap'[o] = heap[o]
        /\ (cm_last'.op \in {"start", "rejected"}) =>
              \A i \in DOMAIN contexts :
                 (/\ contexts[i][1] = cm_last'.user
                  /\ hour - heap[contexts[i][2]].last_activity <= CONTEXT_TIMEOUT_HOURS) =>
                    /\ contexts' = contexts
                    /\ Len(heap'[contexts[i][2]].messages) >= Len(heap[contexts[i][2]].messages)
        /\ (cm_last'.op \in AppendOps /\ cm_last'.obj \in DOMAIN heap') =>
              heap'[cm_last'.obj].last_activity = hour'
      ]_vars
\* an iteration has just removed a context and kept one whose last message
\* was appended exactly the timeout ago
WitC36 ==
    /\ cm_last.op = "sweep"
    /\ Len(contexts) < NumUsers
    /\ \E i \in DOMAIN contexts :
          /\ hour - heap[contexts[i][2]].last_activity = CONTEXT_TIMEOUT_HOURS
          /\ heap[contexts[i][2]].messages[Len(heap[contexts[i][2]].messages)].content[1] \in {"msg", "enh"}

\* ------------------------------------------------------------------ C37
\* C37: a get_response call that ends without a generated text appends
\* nothing after its user message: the step that ends it changes no context
\* and no entry of the store (when the circuit is open, the step that is the
\* whole call appends the user message and nothing else), the user message
\* is in the context of the call, no assistant message of the call is, and the
\* reply returned is not stored.
ThmC37 ==
    [][ (cm_last'.op \in FailOps) =>
          LET o  == cm_last'.obj
              id == cm_last'.id
          IN  /\ cm_last'.ret[1].from # "generated"
              /\ \A x \in DOMAIN heap' : (x # o /\ x \in DOMAIN heap) => heap'[x] = heap[x]
              /\ cm_last'.op \in {"fallback", "error"} =>
                    /\ contexts' = contexts
                    /\ o \in DOMAIN heap' => heap'[o] = heap[o]
              /\ cm_last'.op = "rejected" =>
                    LET after == heap'[o].messages
                    IN  /\ AppendedTo(MessagesOf(heap, o), after)
                        /\ after[Len(after)] = [role |-> "user", content |-> <<"msg", id>>]
              /\ o \in DOMAIN heap' =>
                    /\ \E i \in DOMAIN heap'[o].messages :
                          heap'[o].messages[i] = [role |-> "user", content |-> <<"msg", id>>]
                    /\ \A i \in DOMAIN heap'[o].messages :
                          heap'[o].messages[i].role = "assistant" =>
                             /\ heap'[o].messages[i].content[1] \in {"old", "enh"}
                             /\ heap'[o].messages[i].content # <<"enh", id>>
      ]_vars
\* a call that waited for the backend has just ended with the fallback reply;
\* its user message is the last message of the stored context of its user
WitC37 ==
    /\ cm_last.op = "fallback"
    /\ cm_last.user \in Stored
    /\ ObjOf(cm_last.user) = cm_last.obj
    /\ LET m == heap[cm_last.obj].messages
       IN  m[Len(m)] = [role |-> "user", content |-> <<"msg", cm_last.id>>]

\* the targets of the running or finished broadcast whose send_message has returned
Delivered == {t \in DOMAIN task : task[t].pc \in {"sleeping", "ok"}}

\* ------------------------------------------------------------------ C38
\* C38: user_count is the number of private chats the message was delivered
\* to and group_count the number of delivered chats of any other type, so
\* the two add up to success_count at every moment and in every dict that
\* send_broadcast returns; a target whose send failed is in neither.
ThmC38 ==
    /\ user_count = Cardinality({t \in Delivered : ChatType(t) = "private"})
    /\ group_count = Cardinality({t \in Delivered : ChatType(t) # "private"})
    /\ user_count + group_count = success_count
    /\ bm_result # None =>
          /\ bm_result[1].total_users + bm_result[1].total_groups = bm_result[1].success
          /\ broadcast.pc = "done" /\ bm_result[1] # NoTargets =>
                /\ bm_result[1].total_users = user_count
                /\ bm_result[1].total_groups = group_count
\* a broadcast has returned with a private chat and another chat delivered
\* and a third target failed
WitC38 ==
    /\ bm_result # None
    /\ bm_result[1].total_users = 1
    /\ bm_result[1].total_groups = 1
    /\ bm_result[1].failed = 1

\* ------------------------------------------------------------------ C39
\* C39: send_broadcast is called only for a broadcast command whose sender is
\* the owner, with the target type of that command; a broadcast command of
\* anyone else is answered with a refusal and changes neither the registry
\* nor the broadcast nor any of its counters, so nothing is delivered.
ThmC39 ==
    [][ /\ StartStep =>
              /\ update' # None
              /\ update'[1].sender = <<BOT_OWNER_ID>>
              /\ update'[1].name \in Commands
              /\ broadcast'.target_type =
                    CASE update'[1].name = "broadcast" -> "all"
                      [] update'[1].name = "broadcast_users" -> "users"
                      [] update'[1].name = "broadcast_groups" -> "groups"
        /\ (update' # update /\ update'[1].sender # <<BOT_OWNER_ID>>) =>
              /\ UNCHANGED <<rg_vars, bm_vars>>
              /\ update'[1].answer \in {"denied", "failed"}
      ]_vars
\* a broadcast command with a text from someone who is not the owner has just
\* been refused while there are chats to send to
WitC39 ==
    /\ update # None
    /\ update[1].sender = <<7>>
    /\ update[1].answer = "denied"
    /\ _get_broadcast_targets(chats, "all") # {}
    /\ broadcast.pc = "idle"
====
